---------------------------- MODULE Spec2Model ----------------------------
(***************************************************************************)
(* A model of the `drawer` program (src/src/main.rs and                    *)
(* src/src/geometrical_shapes.rs): shapes are constructed, each shape's    *)
(* draw walks its pixels through Image::display, and main composes a fixed *)
(* sequence of shapes on a 1000x1000 image and saves it.                   *)
(*                                                                         *)
(* Points are pairs <<x, y>>.  A Line is a pair <<start, end>> of points.  *)
(* A Color is abstracted to a small index (the RGBA channels never         *)
(* influence control flow); index 0 is the content of a blank image.       *)
(***************************************************************************)
EXTENDS Integers, Sequences, FiniteSets, TLC

VARIABLES
    image,      \* the raster Image: [width, height, pixels]
    shape,      \* the shape last constructed ([kind |-> "none"] before)
    pc,         \* "idle" | "built" | "drawing" | "drawn": where the shape is
    pending,    \* Lines a composite's draw has still to draw, in order
    cur,        \* loop registers of the Line/Circle being drawn
    shown,      \* history: the display calls of the last step
    calls,      \* history: the display calls of the Point, Line or Circle drawn
    lines,      \* history: the Lines (Line::new args) drawn by this shape
    rnd,        \* history: <<width, height>> given to the last random constructor
    panicked,   \* TRUE once a panic (unwrap on Err, empty gen_range) happened
    step,       \* the statement main is at ("none" outside the composition)
    i,          \* main's loop variable of `for _ in 1..50`
    log,        \* history: what main built and drew, and its saves, in order
    saved       \* number of times raster::save wrote "image.png"

vars == <<image, shape, pc, pending, cur, shown, calls, lines, rnd, panicked,
          step, i, log, saved>>

---------------------------------------------------------------------------
(* Bounds of the model *)

\* the small image the shape specifications draw on is CanvasW x CanvasH
CanvasW == 3
CanvasH == 2
\* coordinates of the enumerated points range over -1 .. MaxCoord
MaxCoord == 5
\* colours a color() call may return: 1 .. MaxColour
MaxColour == 2
\* radii of enumerated circles: 0 .. MaxCircleRadius
MaxCircleRadius == 12
\* radii of enumerated pentagons: 0 .. MaxPentagonRadius
MaxPentagonRadius == 100
\* sizes given to Cube::new: -2 .. MaxCubeSize
MaxCubeSize == 4
\* widths and heights given to Cube::random: -1 .. MaxDim (and ImageSize)
MaxDim == 90
\* a gen_range over at most MaxEnum values is enumerated in full
MaxEnum == 4

(* Program constants *)
ImageSize == 1000
CircleLoopFrom == 1
CircleLoopTo == 50

---------------------------------------------------------------------------
(* Arithmetic of i32 / f64 as the code uses it *)

Abs(n) == IF n < 0 THEN 0 - n ELSE n
Min(a, b) == IF a < b THEN a ELSE b
Max(a, b) == IF a > b THEN a ELSE b

\* Rust's integer division and `as i32` both truncate toward zero
TruncDiv(a, b) == IF a >= 0 THEN a \div b ELSE 0 - ((0 - a) \div b)

Blank == 0
Colours == 1 .. MaxColour
Coords == (0 - 1) .. MaxCoord
Points == Coords \X Coords

NoShape == [kind |-> "none"]
NoCur == [kind |-> "none", done |-> TRUE]

---------------------------------------------------------------------------
(* The image and Displayable *)

\* Image::blank(width, height).  `window` is the set of pixel positions whose
\* content the model records (all of them on a small image; none on the
\* 1000x1000 image of main, whose content decides nothing).
ImageBlank(width, height, window) ==
    [width |-> width, height |-> height,
     pixels |-> [p \in window |-> Blank]]

FullWindow(width, height) == (0 .. width - 1) \X (0 .. height - 1)

\* raster's Image::set_pixel: Err outside the buffer, else the write
SetPixel(img, x, y, color) ==
    IF x < 0 \/ x >= img.width \/ y < 0 \/ y >= img.height
    THEN [ok |-> FALSE, img |-> img]
    ELSE [ok |-> TRUE,
          img |-> IF <<x, y>> \in DOMAIN img.pixels
                  THEN [img EXCEPT !.pixels[<<x, y>>] = color]
                  ELSE img]

\* a mutant of the guard: the upper bounds are taken inclusive
InBoundsInclusive(img, x, y) ==
    x >= 0 /\ x <= img.width /\ y >= 0 /\ y <= img.height

\* the guard of display
InBounds(img, x, y) ==
    x >= 0 /\ x < img.width /\ y >= 0 /\ y < img.height

\* impl Displayable for Image: the result of display(x, y, color) on img:
\* the image after it, whether set_pixel was invoked (hit) and whether the
\* unwrap of its result went through (ok)
Display(img, x, y, color) ==
    IF InBounds(img, x, y)
    THEN LET r == SetPixel(img, x, y, color)
         IN  [img |-> r.img, ok |-> r.ok, hit |-> TRUE]
    ELSE [img |-> img, ok |-> TRUE, hit |-> FALSE]

\* the display calls at the positions ps, in order, all with one colour.
\* display reads only width and height, which no display changes, and writes
\* only its own position, so call k behaves on the image the earlier calls
\* left as it does on img, and the pixels after the sequence are given
\* position by position.  A call whose unwrap fails is the last one made.
DisplayAll(img, ps, color) ==
    LET d(k) == Display(img, ps[k][1], ps[k][2], color)
        made == IF \A k \in 1 .. Len(ps) : d(k).ok THEN Len(ps)
                ELSE CHOOSE k \in 1 .. Len(ps) :
                        ~d(k).ok /\ \A j \in 1 .. (k - 1) : d(j).ok
    IN  [img |-> [img EXCEPT !.pixels =
                     [p \in DOMAIN img.pixels |->
                         IF \E k \in 1 .. made : d(k).img.pixels[p] # img.pixels[p]
                         THEN color ELSE img.pixels[p]]],
         ok |-> \A k \in 1 .. Len(ps) : d(k).ok,
         calls |-> [k \in 1 .. made |->
                      [x |-> ps[k][1], y |-> ps[k][2],
                       color |-> color, hit |-> d(k).hit]]]


---------------------------------------------------------------------------
(* Line *)

\* Line::new(start, end): the two points are copied
LineNew(start, end) == [kind |-> "line", start |-> start, end |-> end]

\* the registers of Line.draw before its loop
LineInit(line, color) ==
    LET x0 == line[1][1]
        y0 == line[1][2]
        x1 == line[2][1]
        y1 == line[2][2]
    IN  [kind |-> "line", done |-> FALSE, color |-> color,
         x0 |-> x0, y0 |-> y0, x1 |-> x1, y1 |-> y1,
         dx |-> Abs(x1 - x0),
         sx |-> IF x0 < x1 THEN 1 ELSE 0 - 1,
         dy |-> 0 - Abs(y1 - y0),
         sy |-> IF y0 < y1 THEN 1 ELSE 0 - 1,
         err |-> Abs(x1 - x0) + (0 - Abs(y1 - y0))]

\* a mutant of the loop body: the x step leaves err as it is
LineIterErrKept(r) ==
    IF r.x0 = r.x1 /\ r.y0 = r.y1
    THEN [r EXCEPT !.done = TRUE]
    ELSE LET e2 == 2 * r.err
             stepX == e2 >= r.dy
             stepY == e2 <= r.dx
         IN  IF stepX /\ r.x0 = r.x1
             THEN [r EXCEPT !.done = TRUE]
             ELSE LET errX == r.err
                      xN == IF stepX THEN r.x0 + r.sx ELSE r.x0
                  IN  IF stepY /\ r.y0 = r.y1
                      THEN [r EXCEPT !.done = TRUE, !.err = errX, !.x0 = xN]
                      ELSE [r EXCEPT !.err = IF stepY THEN errX + r.dx ELSE errX,
                                     !.x0 = xN,
                                     !.y0 = IF stepY THEN r.y0 + r.sy ELSE r.y0]

\* the body of Line.draw's loop after its display call: the three breaks
\* and the two updates, in the code's order
LineIter(r) ==
    IF r.x0 = r.x1 /\ r.y0 = r.y1
    THEN [r EXCEPT !.done = TRUE]
    ELSE LET e2 == 2 * r.err
             stepX == e2 >= r.dy
             stepY == e2 <= r.dx
         IN  IF stepX /\ r.x0 = r.x1
             THEN [r EXCEPT !.done = TRUE]
             ELSE LET errX == IF stepX THEN r.err + r.dy ELSE r.err
                      xN == IF stepX THEN r.x0 + r.sx ELSE r.x0
                  IN  IF stepY /\ r.y0 = r.y1
                      THEN [r EXCEPT !.done = TRUE, !.err = errX, !.x0 = xN]
                      ELSE [r EXCEPT !.err = IF stepY THEN errX + r.dx ELSE errX,
                                     !.x0 = xN,
                                     !.y0 = IF stepY THEN r.y0 + r.sy ELSE r.y0]

\* whether `calls` keeps the display calls of the draw in progress: it does
\* for a Point, Line or Circle drawn outside main (the Lines of a composite
\* and the 1000-pixel walks of main are not kept: no property reads them)
Recorded == step = "none" /\ shape.kind \in {"point", "line", "circle"}

\* Line.draw, entry: the next Line of the shape being drawn samples its
\* colour and sets up its registers
LineStart ==
    /\ pc = "drawing" /\ ~panicked
    /\ cur.done /\ pending # <<>>
    /\ \E color \in Colours : cur' = LineInit(Head(pending), color)
    /\ pending' = Tail(pending)
    /\ lines' = Append(lines, Head(pending))
    /\ shown' = <<>>
    /\ UNCHANGED <<image, shape, pc, calls, rnd, panicked, step, i, log, saved>>

\* Line.draw, one iteration of the loop: display, then break or advance
LineStep ==
    /\ pc = "drawing" /\ ~panicked
    /\ cur.kind = "line" /\ ~cur.done
    /\ \E d \in {DisplayAll(image, << <<cur.x0, cur.y0>> >>, cur.color)} :
           /\ image' = d.img
           /\ shown' = d.calls
           /\ calls' = IF Recorded THEN calls \o d.calls ELSE calls
           /\ panicked' = ~d.ok
           /\ cur' = IF d.ok THEN LineIter(cur) ELSE cur
    /\ UNCHANGED <<shape, pc, pending, lines, rnd, step, i, log, saved>>

\* a composite's (or a Line's) draw returns after its last Line
DrawReturn ==
    /\ pc = "drawing" /\ ~panicked
    /\ cur.done /\ pending = <<>>
    /\ pc' = "drawn"
    /\ shown' = <<>>
    /\ UNCHANGED <<image, shape, pending, cur, calls, lines, rnd, panicked,
                   step, i, log, saved>>

\* impl Drawable for Line: draw of a Line shape
DrawLine ==
    /\ pc = "built" /\ ~panicked /\ shape.kind = "line"
    /\ pending' = << <<shape.start, shape.end>> >>
    /\ pc' = "drawing"
    /\ cur' = NoCur /\ shown' = <<>> /\ calls' = <<>> /\ lines' = <<>>
    /\ UNCHANGED <<image, shape, rnd, panicked, step, i, log, saved>>

\* the state before any shape exists, on a blank width x height image
InitOn(width, height, window, at) ==
    /\ image = ImageBlank(width, height, window)
    /\ shape = NoShape
    /\ pc = "idle"
    /\ pending = <<>>
    /\ cur = NoCur
    /\ shown = <<>>
    /\ calls = <<>>
    /\ lines = <<>>
    /\ rnd = <<>>
    /\ panicked = FALSE
    /\ step = at
    /\ i = CircleLoopFrom
    /\ log = <<>>
    /\ saved = 0

InitSmall == InitOn(CanvasW, CanvasH, FullWindow(CanvasW, CanvasH), "none")

\* no shape exists (main is between two statements) and nothing panicked
Idle == pc = "idle" /\ ~panicked

\* a shape is constructed (by one of the constructors) when none is
Construct(s) ==
    /\ Idle
    /\ shape' = s
    /\ pc' = "built"
    /\ shown' = <<>>
    /\ UNCHANGED <<image, pending, cur, calls, lines, rnd, panicked,
                   step, i, log, saved>>

\* Line::new on any two points
NewLine ==
    /\ Idle
    /\ \E a \in Points, b \in Points : Construct(LineNew(a, b))

NextLine == NewLine \/ DrawLine \/ LineStart \/ LineStep \/ DrawReturn

SpecLine == InitSmall /\ [][NextLine]_vars

---------------------------------------------------------------------------
(* Point *)

\* Point::new / a Point shape
PointNew(p) == [kind |-> "point", at |-> p]

\* impl Drawable for Point: one display call with a sampled colour
DrawPoint ==
    /\ pc = "built" /\ ~panicked /\ shape.kind = "point"
    /\ \E color \in Colours :
         \E d \in {DisplayAll(image, <<shape.at>>, color)} :
             /\ image' = d.img
             /\ shown' = d.calls
             /\ calls' = IF Recorded THEN d.calls ELSE <<>>
             /\ panicked' = ~d.ok
             /\ pc' = IF d.ok THEN "drawn" ELSE pc
    /\ cur' = NoCur /\ lines' = <<>> /\ pending' = <<>>
    /\ UNCHANGED <<shape, rnd, step, i, log, saved>>

---------------------------------------------------------------------------
(* Circle *)

\* Circle::new(center, radius)
CircleNew(center, radius) ==
    [kind |-> "circle", center |-> center, radius |-> radius]

\* the registers of Circle.draw before its loop, and the first loop test
CircleInit(s, color) ==
    [kind |-> "circle", done |-> ~(s.radius >= 0), color |-> color,
     x |-> s.radius, y |-> 0, err |-> 0]

\* a mutant: the third display repeats (-y, -x) instead of (-y, +x)
CirclePositionsSwapped(c, x, y) ==
    << <<c[1] + x, c[2] + y>>, <<c[1] + y, c[2] + x>>,
       <<c[1] - y, c[2] - x>>, <<c[1] - x, c[2] + y>>,
       <<c[1] - x, c[2] - y>>, <<c[1] - y, c[2] - x>>,
       <<c[1] + y, c[2] - x>>, <<c[1] + x, c[2] - y>> >>

\* the eight display calls of one iteration, in the code's order
CirclePositions(c, x, y) ==
    << <<c[1] + x, c[2] + y>>, <<c[1] + y, c[2] + x>>,
       <<c[1] - y, c[2] + x>>, <<c[1] - x, c[2] + y>>,
       <<c[1] - x, c[2] - y>>, <<c[1] - y, c[2] - x>>,
       <<c[1] + y, c[2] - x>>, <<c[1] + x, c[2] - y>> >>

\* a mutant of the update: err is raised only when err < 0
CircleIterStrict(r) ==
    LET y1 == r.y + 1
        err1 == IF r.err < 0 THEN r.err + 2 * y1 + 1 ELSE r.err
        x2 == IF err1 > 0 THEN r.x - 1 ELSE r.x
        err2 == IF err1 > 0 THEN err1 - (2 * x2 + 1) ELSE err1
    IN  [r EXCEPT !.x = x2, !.y = y1, !.err = err2, !.done = ~(x2 >= y1)]

\* the update at the end of an iteration, and the next loop test x >= y
CircleIter(r) ==
    LET y1 == r.y + 1
        err1 == IF r.err <= 0 THEN r.err + 2 * y1 + 1 ELSE r.err
        x2 == IF err1 > 0 THEN r.x - 1 ELSE r.x
        err2 == IF err1 > 0 THEN err1 - (2 * x2 + 1) ELSE err1
    IN  [r EXCEPT !.x = x2, !.y = y1, !.err = err2, !.done = ~(x2 >= y1)]

\* impl Drawable for Circle, entry: the colour is sampled, x = radius
DrawCircle ==
    /\ pc = "built" /\ ~panicked /\ shape.kind = "circle"
    /\ \E color \in Colours : cur' = CircleInit(shape, color)
    /\ pc' = "drawing"
    /\ pending' = <<>> /\ shown' = <<>> /\ calls' = <<>> /\ lines' = <<>>
    /\ UNCHANGED <<image, shape, rnd, panicked, step, i, log, saved>>

\* Circle.draw, one iteration of `while x >= y`
CircleStep ==
    /\ pc = "drawing" /\ ~panicked
    /\ cur.kind = "circle" /\ ~cur.done
    /\ \E d \in {DisplayAll(image, CirclePositions(shape.center, cur.x, cur.y),
                           cur.color)} :
           /\ image' = d.img
           /\ shown' = d.calls
           /\ calls' = IF Recorded THEN calls \o d.calls ELSE calls
           /\ panicked' = ~d.ok
           /\ cur' = IF d.ok THEN CircleIter(cur) ELSE cur
    /\ UNCHANGED <<shape, pc, pending, lines, rnd, step, i, log, saved>>

---------------------------------------------------------------------------
(* Triangle and Rectangle *)

\* Triangle::new(a, b, c)
TriangleNew(a, b, c) == [kind |-> "triangle", a |-> a, b |-> b, c |-> c]

\* the Lines Triangle.draw draws
TriangleLines(s) == << <<s.a, s.b>>, <<s.b, s.c>>, <<s.c, s.a>> >>

\* Rectangle::new(point1, point2)
RectangleNew(point1, point2) ==
    [kind |-> "rectangle", top_left |-> point1, bottom_right |-> point2]

\* a mutant: top_right and bottom_left take their coordinates the other way
RectangleLinesCrossed(s) ==
    LET top_right == <<s.top_left[1], s.bottom_right[2]>>
        bottom_left == <<s.bottom_right[1], s.top_left[2]>>
    IN  << <<s.top_left, top_right>>, <<top_right, s.bottom_right>>,
           <<s.bottom_right, bottom_left>>, <<bottom_left, s.top_left>> >>

\* the Lines Rectangle.draw draws
RectangleLines(s) ==
    LET top_right == <<s.bottom_right[1], s.top_left[2]>>
        bottom_left == <<s.top_left[1], s.bottom_right[2]>>
    IN  << <<s.top_left, top_right>>, <<top_right, s.bottom_right>>,
           <<s.bottom_right, bottom_left>>, <<bottom_left, s.top_left>> >>

\* a composite's draw, entry: its Lines are drawn one after the other
DrawLines(kind, ls) ==
    /\ pc = "built" /\ ~panicked /\ shape.kind = kind
    /\ pending' = ls
    /\ pc' = "drawing"
    /\ cur' = NoCur /\ shown' = <<>> /\ calls' = <<>> /\ lines' = <<>>
    /\ UNCHANGED <<image, shape, rnd, panicked, step, i, log, saved>>

DrawTriangle == DrawLines("triangle", TriangleLines(shape))

DrawRectangle == DrawLines("rectangle", RectangleLines(shape))

---------------------------------------------------------------------------
(* Pentagon *)

\* Pentagon::new(center, radius)
PentagonNew(center, radius) ==
    [kind |-> "pentagon", center |-> center, radius |-> radius]

\* cos and sin of 2*PI*i/5 for i = 0..4, in millionths.  cos 0 = 1 and
\* sin 0 = 0 are exact in f64; the other values are irrational, and for
\* every radius below 899 the truncation of radius times the table entry
\* is the truncation of the f64 product.
Cos5 == <<1000000, 309017, 0 - 809017, 0 - 809017, 309017>>
Sin5 == <<0, 951057, 587785, 0 - 587785, 0 - 951057>>

\* the five points of Pentagon.draw: (radius * cos) as i32 truncates
PentagonPoints(s) ==
    [k \in 1 .. 5 |->
        << s.center[1] + TruncDiv(s.radius * Cos5[k], 1000000),
           s.center[2] + TruncDiv(s.radius * Sin5[k], 1000000) >>]

\* a mutant: the index of the next point does not wrap around
PentagonLinesOpen(s) ==
    LET points == PentagonPoints(s)
    IN  [k \in 1 .. 5 |-> <<points[k], points[IF k = 5 THEN 5 ELSE k + 1]>>]

\* the Lines Pentagon.draw draws: points[i] to points[(i + 1) % 5]
PentagonLines(s) ==
    LET points == PentagonPoints(s)
    IN  [k \in 1 .. 5 |-> <<points[k], points[(k % 5) + 1]>>]

DrawPentagon == DrawLines("pentagon", PentagonLines(shape))

---------------------------------------------------------------------------
(* Cube *)

\* a Cube value; depth_factor is kept in thousandths
CubeWith(front_top_left, size, depth_factor) ==
    [kind |-> "cube", front_top_left |-> front_top_left, size |-> size,
     depth_factor |-> depth_factor]

\* Cube::new(front_top_left, size): depth_factor is 0.5
CubeNew(front_top_left, size) == CubeWith(front_top_left, size, 500)

\* depth = (size as f64 * depth_factor) as i32
CubeDepth(s) == TruncDiv(s.size * s.depth_factor, 1000)

\* a mutant: the back face is offset by (+depth, +depth)
CubeCornersDown(s) ==
    LET depth == CubeDepth(s)
        ftl == s.front_top_left
        ftr == <<ftl[1] + s.size, ftl[2]>>
        fbl == <<ftl[1], ftl[2] + s.size>>
        fbr == <<ftl[1] + s.size, ftl[2] + s.size>>
    IN  [ftl |-> ftl, ftr |-> ftr, fbl |-> fbl, fbr |-> fbr,
         btl |-> <<ftl[1] + depth, ftl[2] + depth>>,
         btr |-> <<ftr[1] + depth, ftr[2] + depth>>,
         bbl |-> <<fbl[1] + depth, fbl[2] + depth>>,
         bbr |-> <<fbr[1] + depth, fbr[2] + depth>>]

\* the eight corner points Cube.draw derives
CubeCorners(s) ==
    LET depth == CubeDepth(s)
        ftl == s.front_top_left
        ftr == <<ftl[1] + s.size, ftl[2]>>
        fbl == <<ftl[1], ftl[2] + s.size>>
        fbr == <<ftl[1] + s.size, ftl[2] + s.size>>
    IN  [ftl |-> ftl, ftr |-> ftr, fbl |-> fbl, fbr |-> fbr,
         btl |-> <<ftl[1] + depth, ftl[2] - depth>>,
         btr |-> <<ftr[1] + depth, ftr[2] - depth>>,
         bbl |-> <<fbl[1] + depth, fbl[2] - depth>>,
         bbr |-> <<fbr[1] + depth, fbr[2] - depth>>]

\* the Lines Cube.draw draws: front face, back face, connectors
CubeLines(s) ==
    LET c == CubeCorners(s)
    IN  << <<c.ftl, c.ftr>>, <<c.ftr, c.fbr>>, <<c.fbr, c.fbl>>, <<c.fbl, c.ftl>>,
           <<c.btl, c.btr>>, <<c.btr, c.bbr>>, <<c.bbr, c.bbl>>, <<c.bbl, c.btl>>,
           <<c.ftl, c.btl>>, <<c.ftr, c.btr>>, <<c.fbl, c.bbl>>, <<c.fbr, c.bbr>> >>

DrawCube == DrawLines("cube", CubeLines(shape))

---------------------------------------------------------------------------
(* Random construction *)

\* the outcome of a constructor whose gen_range was given an empty range
Panic == [kind |-> "panic"]

Panics(outcomes) == \E o \in outcomes : o.kind = "panic"

\* the values rng.gen_range(lo..hi) may return, empty when lo >= hi (the call
\* panics).  A range of more than MaxEnum values is represented by its
\* least and greatest value.
GenRange(lo, hi) ==
    IF hi - lo <= MaxEnum THEN lo .. (hi - 1) ELSE {lo, hi - 1}

\* Point::random(width, height): x, then y
PointRandom(width, height) ==
    IF GenRange(0, width) = {} \/ GenRange(0, height) = {}
    THEN {Panic}
    ELSE {PointNew(<<x, y>>) : x \in GenRange(0, width), y \in GenRange(0, height)}

\* Line::random(width, height): start, then end
LineRandom(width, height) ==
    IF Panics(PointRandom(width, height))
    THEN {Panic}
    ELSE {LineNew(a.at, b.at) : a \in PointRandom(width, height),
                                b \in PointRandom(width, height)}

\* max_radius of Pentagon::random and Circle::random
MaxRadius(width, height) == Max(TruncDiv(Min(width, height), 10), 10)

\* Pentagon::random(width, height): the center, then the radius
PentagonRandom(width, height) ==
    IF Panics(PointRandom(width, height))
          \/ GenRange(5, MaxRadius(width, height)) = {}
    THEN {Panic}
    ELSE {PentagonNew(c.at, r) : c \in PointRandom(width, height),
                                 r \in GenRange(5, MaxRadius(width, height))}

\* Circle::random(width, height): the center, then the radius
CircleRandom(width, height) ==
    IF Panics(PointRandom(width, height))
          \/ GenRange(5, MaxRadius(width, height)) = {}
    THEN {Panic}
    ELSE {CircleNew(c.at, r) : c \in PointRandom(width, height),
                               r \in GenRange(5, MaxRadius(width, height))}

\* a mutant: max_size is min(width, height) / 4
CubeMaxSizeQuarter(width, height) == Max(TruncDiv(Min(width, height), 4), 10)

\* max_size of Cube::random
CubeMaxSize(width, height) == Max(TruncDiv(Min(width, height), 8), 10)

\* Cube::random(width, height): size, then x, then y, then depth_factor in
\* 0.3..0.7 (its least value and the greatest one in thousandths)
CubeRandom(width, height) ==
    LET sizes == GenRange(10, CubeMaxSize(width, height))
    IN  IF sizes = {}
        THEN {Panic}
        ELSE UNION {
               IF GenRange(size, width - size) = {}
                     \/ GenRange(size, height - size) = {}
               THEN {Panic}
               ELSE {CubeWith(<<x, y>>, size, df) :
                        x \in GenRange(size, width - size),
                        y \in GenRange(size, height - size),
                        df \in {300, 699}}
               : size \in sizes }

\* a random constructor is called with (width, height): it panics or
\* returns one of its shapes
ConstructRandom(outcomes, width, height) ==
    /\ Idle
    /\ \E o \in outcomes :
         /\ panicked' = (o.kind = "panic")
         /\ shape' = IF o.kind = "panic" THEN shape ELSE o
         /\ pc' = IF o.kind = "panic" THEN pc ELSE "built"
    /\ rnd' = <<width, height>>
    /\ shown' = <<>>
    /\ UNCHANGED <<image, pending, cur, calls, lines, step, i, log, saved>>

---------------------------------------------------------------------------
(* The shapes on the small image *)

\* Circle::new on any centre, radius -1 .. MaxCircleRadius
NewCircle ==
    /\ Idle
    /\ \E c \in Points, r \in (0 - 1) .. MaxCircleRadius :
         Construct(CircleNew(c, r))

NextCircle == NewCircle \/ DrawCircle \/ CircleStep \/ DrawReturn

SpecCircle == InitSmall /\ [][NextCircle]_vars

\* Rectangle::new on any two points, and on the two points of main
NewRectangle ==
    /\ Idle
    /\ \/ \E a \in Points, b \in Points : Construct(RectangleNew(a, b))
       \/ Construct(RectangleNew(<<150, 150>>, <<50, 50>>))

NextRectangle ==
    NewRectangle \/ DrawRectangle \/ LineStart \/ LineStep \/ DrawReturn

SpecRectangle == InitSmall /\ [][NextRectangle]_vars

\* Pentagon::new on a centre near the image and on the centre of main
NewPentagon ==
    /\ Idle
    /\ \E c \in {<<1, 1>>, <<300, 300>>}, r \in 0 .. MaxPentagonRadius :
         Construct(PentagonNew(c, r))

NextPentagon ==
    NewPentagon \/ DrawPentagon \/ LineStart \/ LineStep \/ DrawReturn

SpecPentagon == InitSmall /\ [][NextPentagon]_vars

\* the widths and heights Cube::random is called with
Dims == ((0 - 1) .. MaxDim) \cup {ImageSize}

\* the points on and around the small image
Near == ((0 - 1) .. CanvasW) \X ((0 - 1) .. CanvasH)

\* Cube::new on the points of Near with sizes -2 .. MaxCubeSize, and
\* the cube of main
NewCube ==
    /\ Idle
    /\ \/ \E p \in Near, size \in (0 - 2) .. MaxCubeSize :
            Construct(CubeNew(p, size))
       \/ Construct(CubeNew(<<700, 200>>, 120))

\* Cube::random on any width and height of Dims
RandomCube ==
    /\ Idle
    /\ \E w \in Dims, h \in Dims : ConstructRandom(CubeRandom(w, h), w, h)

NextCube ==
    NewCube \/ RandomCube \/ DrawCube \/ LineStart \/ LineStep \/ DrawReturn

SpecCube == InitSmall /\ [][NextCube]_vars

---------------------------------------------------------------------------
(* Every kind of shape on the small image *)

\* Triangle::new on the points of Near a triangle of main scales down to
TrianglePoints == {<<0 - 1, 0 - 1>>, <<0, 1>>, <<2, 0>>, <<CanvasW, CanvasH>>}

\* shapes of every kind built by the exact constructors on the points of
\* Near, with radii and sizes 0 .. CanvasW
NewShape ==
    /\ Idle
    /\ \/ \E p \in Near : Construct(PointNew(p))
       \/ \E a \in Near, b \in Near : Construct(LineNew(a, b))
       \/ \E a \in TrianglePoints, b \in TrianglePoints, c \in TrianglePoints :
             Construct(TriangleNew(a, b, c))
       \/ \E a \in TrianglePoints, b \in TrianglePoints :
             Construct(RectangleNew(a, b))
       \/ \E c \in Near, r \in 0 .. CanvasW : Construct(CircleNew(c, r))
       \/ \E c \in TrianglePoints, r \in 0 .. CanvasW :
             Construct(PentagonNew(c, r))
       \/ \E p \in TrianglePoints, n \in 0 .. CanvasW : Construct(CubeNew(p, n))

NextShapes ==
    \/ NewShape
    \/ DrawPoint \/ DrawLine \/ DrawTriangle \/ DrawRectangle
    \/ DrawCircle \/ DrawPentagon \/ DrawCube
    \/ LineStart \/ LineStep \/ CircleStep \/ DrawReturn

SpecShapes == InitSmall /\ [][NextShapes]_vars

---------------------------------------------------------------------------
(* main *)

\* what the log keeps of a shape built by an exact constructor
ShapeArgs(s) ==
    CASE s.kind = "rectangle" ->
            <<s.top_left[1], s.top_left[2], s.bottom_right[1], s.bottom_right[2]>>
      [] s.kind = "triangle" ->
            <<s.a[1], s.a[2], s.b[1], s.b[2], s.c[1], s.c[2]>>
      [] s.kind = "pentagon" -> <<s.center[1], s.center[2], s.radius>>
      [] s.kind = "cube" -> <<s.front_top_left[1], s.front_top_left[2], s.size>>
      [] OTHER -> <<>>

\* the log after a construction: a new entry, or one more of the last entry
\* when the same construction follows its finished draw
Logged(l, kind, random, args) ==
    IF /\ l # <<>>
       /\ l[Len(l)].kind = kind /\ l[Len(l)].random = random
       /\ l[Len(l)].args = args /\ l[Len(l)].drawn
    THEN [l EXCEPT ![Len(l)].count = @ + 1, ![Len(l)].drawn = FALSE]
    ELSE Append(l, [kind |-> kind, random |-> random, args |-> args,
                    count |-> 1, drawn |-> FALSE])

\* main before its first statement: Image::blank(1000, 1000)
InitMain == InitOn(ImageSize, ImageSize, {}, "line")

\* a statement of main that builds a shape with an exact constructor
MainNew(at, s) ==
    /\ step = at /\ Idle
    /\ shape' = s
    /\ pc' = "built"
    /\ log' = Logged(log, s.kind, FALSE, ShapeArgs(s))
    /\ shown' = <<>>
    /\ UNCHANGED <<image, pending, cur, calls, lines, rnd, panicked,
                   step, i, saved>>

\* a statement of main that calls a random constructor with the image's
\* width and height
MainRandom(at, outcomes) ==
    /\ step = at /\ Idle
    /\ \E o \in outcomes :
         /\ panicked' = (o.kind = "panic")
         /\ shape' = IF o.kind = "panic" THEN shape ELSE o
         /\ pc' = IF o.kind = "panic" THEN pc ELSE "built"
         /\ log' = IF o.kind = "panic" THEN log
                   ELSE Logged(log, o.kind, TRUE, <<>>)
    /\ rnd' = <<image.width, image.height>>
    /\ shown' = <<>>
    /\ UNCHANGED <<image, pending, cur, calls, lines, step, i, saved>>

MainLine == MainRandom("line", LineRandom(image.width, image.height))

MainPoint == MainRandom("point", PointRandom(image.width, image.height))

MainRectangle ==
    MainNew("rectangle", RectangleNew(<<150, 150>>, <<50, 50>>))

MainTriangle ==
    MainNew("triangle", TriangleNew(<<500, 500>>, <<250, 700>>, <<700, 800>>))

\* a mutant: the loop runs while i <= 50
MainLoopInclusive ==
    /\ step = "loop" /\ Idle
    /\ step' = IF i <= CircleLoopTo THEN "circle" ELSE "pentagon"
    /\ UNCHANGED <<image, shape, pc, pending, cur, shown, calls, lines, rnd,
                   panicked, i, log, saved>>

\* `for _ in 1..50`: the range yields i while i < 50
MainLoop ==
    /\ step = "loop" /\ Idle
    /\ step' = IF i < CircleLoopTo THEN "circle" ELSE "pentagon"
    /\ UNCHANGED <<image, shape, pc, pending, cur, shown, calls, lines, rnd,
                   panicked, i, log, saved>>

MainCircle == MainRandom("circle", CircleRandom(image.width, image.height))

MainPentagon == MainNew("pentagon", PentagonNew(<<300, 300>>, 100))

MainPentagonRandom ==
    MainRandom("pentagon_random", PentagonRandom(image.width, image.height))

MainCube == MainNew("cube", CubeNew(<<700, 200>>, 120))

MainCubeRandom ==
    MainRandom("cube_random", CubeRandom(image.width, image.height))

\* the statement after each statement of main
Following(at) ==
    CASE at = "line" -> "point"
      [] at = "point" -> "rectangle"
      [] at = "rectangle" -> "triangle"
      [] at = "triangle" -> "loop"
      [] at = "circle" -> "loop"
      [] at = "pentagon" -> "pentagon_random"
      [] at = "pentagon_random" -> "cube"
      [] at = "cube" -> "cube_random"
      [] at = "cube_random" -> "save"
      [] at = "save" -> "returned"

\* the draw of the statement's shape returned: the shape is dropped and main
\* goes on (the body of the loop ends an iteration)
MainDrawn ==
    /\ step \notin {"none", "loop", "save", "returned"}
    /\ pc = "drawn" /\ ~panicked
    /\ log' = [log EXCEPT ![Len(log)].drawn = TRUE]
    /\ pc' = "idle"
    /\ shape' = NoShape
    /\ step' = Following(step)
    /\ i' = IF step = "circle" THEN i + 1 ELSE i
    /\ cur' = NoCur /\ shown' = <<>> /\ calls' = <<>> /\ lines' = <<>>
    /\ UNCHANGED <<image, pending, rnd, panicked, saved>>

\* raster::save(&image, "image.png").unwrap(), the file system taking the file
MainSave ==
    /\ step = "save" /\ Idle
    /\ saved' = saved + 1
    /\ log' = Append(log, [kind |-> "save", random |-> FALSE, args |-> <<>>,
                           count |-> saved + 1, drawn |-> FALSE])
    /\ step' = Following(step)
    /\ UNCHANGED <<image, shape, pc, pending, cur, shown, calls, lines, rnd,
                   panicked, i>>

NextMain ==
    \/ MainLine \/ MainPoint \/ MainRectangle \/ MainTriangle
    \/ MainLoop \/ MainCircle
    \/ MainPentagon \/ MainPentagonRandom \/ MainCube \/ MainCubeRandom
    \/ MainDrawn \/ MainSave
    \/ DrawPoint \/ DrawLine \/ DrawTriangle \/ DrawRectangle
    \/ DrawCircle \/ DrawPentagon \/ DrawCube
    \/ LineStart \/ LineStep \/ CircleStep \/ DrawReturn

\* main is one thread that runs until it returns or panics
SpecMain == InitMain /\ [][NextMain]_vars /\ WF_vars(NextMain)

---------------------------------------------------------------------------
(* Properties of Line.draw (SpecLine) *)

CallPos(c) == <<c.x, c.y>>
CallSeq == [k \in 1 .. Len(calls) |-> CallPos(calls[k])]
Sq(n) == n * n

\* the number of steps between the endpoints of the Line shape
LineSpan ==
    Max(Abs(shape.end[1] - shape.start[1]), Abs(shape.end[2] - shape.start[2]))

\* C2: Line.draw ends after exactly max(|x1-x0|, |y1-y0|) + 1 display calls,
\* each on a different pixel, the first on start, the last on end, every two
\* consecutive ones 8-adjacent; start = end plots one pixel and
\* (0,0)->(5,0) plots (0,0),(1,0),(2,0),(3,0),(4,0),(5,0).
C2_LineWalk ==
    (shape.kind = "line" /\ cur.kind = "line") =>
        /\ Len(calls) <= LineSpan + 1
        /\ ~cur.done => Len(calls) <= LineSpan
        /\ cur.done => /\ Len(calls) = LineSpan + 1
                       /\ CallSeq[Len(calls)] = shape.end
        /\ Len(calls) >= 1 => CallSeq[1] = shape.start
        /\ \A j \in 1 .. Len(calls), k \in 1 .. Len(calls) :
              j < k => CallSeq[j] # CallSeq[k]
        /\ \A j \in 1 .. Len(calls) - 1 :
              /\ Abs(CallSeq[j + 1][1] - CallSeq[j][1]) <= 1
              /\ Abs(CallSeq[j + 1][2] - CallSeq[j][2]) <= 1
        /\ (cur.done /\ shape.start = shape.end) => CallSeq = <<shape.start>>
        /\ (cur.done /\ shape.start = <<0, 0>> /\ shape.end = <<5, 0>>) =>
              CallSeq = << <<0, 0>>, <<1, 0>>, <<2, 0>>, <<3, 0>>, <<4, 0>>, <<5, 0>> >>

\* a finished Line from an off-image point, neither axis-parallel nor diagonal
C2_Witness ==
    /\ pc = "drawn" /\ shape.kind = "line"
    /\ shape.start = <<0 - 1, 4>> /\ shape.end = <<5, 1>>
    /\ Len(calls) = 7

---------------------------------------------------------------------------
(* Properties of Circle.draw (SpecCircle) *)

\* the offsets from the centre of the display calls of the Circle
Offsets ==
    {<<calls[k].x - shape.center[1], calls[k].y - shape.center[2]>> :
        k \in 1 .. Len(calls)}

\* C3: the positions Circle.draw passes to display are symmetric about the
\* centre under the 8 reflections of the square, and radius 0 plots the
\* centre only.
C3_CircleSymmetric ==
    (shape.kind = "circle" /\ cur.kind = "circle" /\ shape.radius >= 0) =>
        /\ \A d \in Offsets :
              {<<d[2], d[1]>>, <<0 - d[1], d[2]>>, <<d[1], 0 - d[2]>>,
               <<0 - d[1], 0 - d[2]>>, <<0 - d[2], d[1]>>, <<d[2], 0 - d[1]>>,
               <<0 - d[2], 0 - d[1]>>} \subseteq Offsets
        /\ (shape.radius = 0 /\ cur.done) => Offsets = {<<0, 0>>}

\* a finished Circle of radius 5 around an off-image centre: 24 positions
C3_Witness ==
    /\ pc = "drawn" /\ shape.kind = "circle"
    /\ shape.radius = 5 /\ shape.center = <<0 - 1, 2>>
    /\ Cardinality(Offsets) = 24

\* C10 as stated: every position Circle.draw plots lies within one pixel of
\* the circle of the given radius, (radius-1)^2 <= dx^2 + dy^2 <= (radius+1)^2.
C10_WithinOne ==
    (shape.kind = "circle" /\ shape.radius >= 1) =>
        \A d \in Offsets :
            /\ Sq(shape.radius - 1) <= Sq(d[1]) + Sq(d[2])
            /\ Sq(d[1]) + Sq(d[2]) <= Sq(shape.radius + 1)

\* C10, amended: every position Circle.draw plots is at a distance between
\* radius - 2 and radius + 1 from the centre.
C10_WithinTwo ==
    (shape.kind = "circle" /\ shape.radius >= 1) =>
        \A d \in Offsets :
            /\ shape.radius <= 2 \/ Sq(shape.radius - 2) <= Sq(d[1]) + Sq(d[2])
            /\ Sq(d[1]) + Sq(d[2]) <= Sq(shape.radius + 1)

\* a finished Circle of radius 10 that plotted (8, 4), at distance 8.94
C10_Witness ==
    /\ pc = "drawn" /\ shape.kind = "circle" /\ shape.radius = 10
    /\ <<8, 4>> \in Offsets

---------------------------------------------------------------------------
(* Properties of Rectangle.draw (SpecRectangle) *)

\* C6: Rectangle.draw draws exactly 4 Lines forming the closed path
\* p1 -> (p2.x, p1.y) -> p2 -> (p1.x, p2.y) -> p1, every edge horizontal or
\* vertical; for (150,150), (50,50) the corners are (150,150), (50,150),
\* (50,50), (150,50).
C6_RectangleClosed ==
    (shape.kind = "rectangle" /\ pc = "drawn") =>
        LET p1 == shape.top_left
            p2 == shape.bottom_right
        IN  /\ Len(lines) = 4
            /\ \A k \in 1 .. 4 :
                  /\ lines[k][2] = lines[(k % 4) + 1][1]
                  /\ \/ lines[k][1][1] = lines[k][2][1]
                     \/ lines[k][1][2] = lines[k][2][2]
            /\ [k \in 1 .. 4 |-> lines[k][1]] =
                  <<p1, <<p2[1], p1[2]>>, p2, <<p1[1], p2[2]>> >>
            /\ (p1 = <<150, 150>> /\ p2 = <<50, 50>>) =>
                  [k \in 1 .. 4 |-> lines[k][1]] =
                     << <<150, 150>>, <<50, 150>>, <<50, 50>>, <<150, 50>> >>

\* the rectangle of main, corners given bottom-right first, drawn
C6_Witness ==
    /\ pc = "drawn" /\ shape.kind = "rectangle"
    /\ shape.top_left = <<150, 150>> /\ shape.bottom_right = <<50, 50>>
    /\ Len(lines) = 4

---------------------------------------------------------------------------
(* Properties of Pentagon.draw (SpecPentagon) *)

\* the offsets from the centre of the start points of the Lines drawn
VertexOffsets ==
    {<<lines[k][1][1] - shape.center[1], lines[k][1][2] - shape.center[2]>> :
        k \in 1 .. Len(lines)}

\* the Lines drawn so far chain: each ends where the next starts
Chained == \A k \in 1 .. Len(lines) - 1 : lines[k][2] = lines[k + 1][1]

\* C4 as stated: Pentagon.draw draws exactly 5 Lines, vertex i to vertex
\* (i+1) mod 5, a closed path, and every vertex is at a distance from the
\* centre that differs from the radius by at most 1, for every radius >= 1.
C4_WithinOne ==
    (shape.kind = "pentagon" /\ pc = "drawn" /\ shape.radius >= 1) =>
        /\ Len(lines) = 5
        /\ Chained /\ lines[5][2] = lines[1][1]
        /\ \A d \in VertexOffsets :
              /\ Sq(shape.radius - 1) <= Sq(d[1]) + Sq(d[2])
              /\ Sq(d[1]) + Sq(d[2]) <= Sq(shape.radius + 1)

\* C4, amended: Pentagon.draw draws exactly 5 Lines, vertex i to vertex
\* (i+1) mod 5, a closed path, and every vertex is at a distance between
\* radius - 2 and radius + 1 from the centre, for every radius >= 1.
C4_WithinTwo ==
    (shape.kind = "pentagon" /\ pc = "drawn" /\ shape.radius >= 1) =>
        /\ Len(lines) = 5
        /\ Chained /\ lines[5][2] = lines[1][1]
        /\ \A d \in VertexOffsets :
              /\ shape.radius <= 2 \/ Sq(shape.radius - 2) <= Sq(d[1]) + Sq(d[2])
              /\ Sq(d[1]) + Sq(d[2]) <= Sq(shape.radius + 1)

\* the pentagon of main drawn: its third vertex (-80, 58) is 98.8 away
C4_Witness ==
    /\ pc = "drawn" /\ shape.kind = "pentagon"
    /\ shape.center = <<300, 300>> /\ shape.radius = 100
    /\ Len(lines) = 5 /\ lines[3][1] = <<220, 358>>

---------------------------------------------------------------------------
(* Properties of Cube (SpecCube) *)

\* depth = trunc(size * depth_factor), from the fields of the Cube shape
ShapeDepth == TruncDiv(shape.size * shape.depth_factor, 1000)

\* the four front corners and, offset by (+depth, -depth), the four back
\* corners: ftl, ftr, fbl, fbr, btl, btr, bbl, bbr
ShapeCorners ==
    LET a == shape.front_top_left
        n == shape.size
        d == ShapeDepth
    IN  << a, <<a[1] + n, a[2]>>, <<a[1], a[2] + n>>, <<a[1] + n, a[2] + n>>,
           <<a[1] + d, a[2] - d>>, <<a[1] + n + d, a[2] - d>>,
           <<a[1] + d, a[2] + n - d>>, <<a[1] + n + d, a[2] + n - d>> >>

\* C5: Cube.draw draws exactly 12 Lines, the 4 front edges, the 4 back edges
\* and the connectors ftl-btl, ftr-btr, fbl-bbl, fbr-bbr, and the 8 corners
\* are pairwise distinct whenever depth > 0.
C5_CubeWireframe ==
    (shape.kind = "cube" /\ pc = "drawn") =>
        LET c == ShapeCorners
            edge(l, a, b) == {l[1], l[2]} = {c[a], c[b]}
        IN  /\ Len(lines) = 12
            /\ {{lines[k][1], lines[k][2]} : k \in 1 .. 4} =
                  {{c[1], c[2]}, {c[2], c[4]}, {c[4], c[3]}, {c[3], c[1]}}
            /\ {{lines[k][1], lines[k][2]} : k \in 5 .. 8} =
                  {{c[5], c[6]}, {c[6], c[8]}, {c[8], c[7]}, {c[7], c[5]}}
            /\ edge(lines[9], 1, 5) /\ edge(lines[10], 2, 6)
            /\ edge(lines[11], 3, 7) /\ edge(lines[12], 4, 8)
            /\ ShapeDepth > 0 =>
                  Cardinality({c[k] : k \in 1 .. 8}) = 8

\* a random cube with depth 6 drawn
C5_Witness ==
    /\ pc = "drawn" /\ shape.kind = "cube" /\ rnd # <<>>
    /\ ShapeDepth = 6 /\ Len(lines) = 12

\* C8: every corner Cube.draw derives from a cube of Cube::random(width,
\* height) satisfies 0 <= x < width and 0 <= y < height.
C8_RandomCubeFits ==
    (shape.kind = "cube" /\ rnd # <<>> /\ ~panicked) =>
        \A k \in 1 .. Len(lines), e \in 1 .. 2 :
            /\ 0 <= lines[k][e][1] /\ lines[k][e][1] < rnd[1]
            /\ 0 <= lines[k][e][2] /\ lines[k][e][2] < rnd[2]

\* C9: Cube::random(width, height) panics exactly when a sampling range is
\* empty; otherwise size is in [10, max(10, min(width,height)/8)), x in
\* [size, width-size), y in [size, height-size); the position ranges are
\* non-empty whenever the size range is; the call succeeds if and only if
\* min(width, height) >= 88.
C9_CubeRandomRanges ==
    rnd # <<>> =>
        LET w == rnd[1]
            h == rnd[2]
            m == Min(w, h)
            hi == Max(10, TruncDiv(m, 8))
        IN  /\ panicked <=> ~(m >= 88)
            /\ panicked <=> ~(10 < hi)
            /\ ~panicked =>
                  LET n == shape.size
                      a == shape.front_top_left
                  IN  /\ shape.kind = "cube"
                      /\ 10 <= n /\ n < hi
                      /\ n <= a[1] /\ a[1] < w - n
                      /\ n <= a[2] /\ a[2] < h - n
                      /\ \A z \in 10 .. hi - 1 : z < w - z /\ z < h - z

\* Cube::random(88, 89) returned a cube
C9_Witness ==
    /\ rnd = <<88, 89>> /\ pc = "built" /\ ~panicked
    /\ shape.kind = "cube" /\ shape.size = 10

---------------------------------------------------------------------------
(* Properties of display (SpecShapes) *)

\* the display calls of the step write position p
Written(p) == \E k \in 1 .. Len(shown') : CallPos(shown'[k]) = p

\* C1: display(x, y, color) sets pixel (x, y) to the colour and changes no
\* other pixel when 0 <= x < W and 0 <= y < H, and leaves the image
\* unchanged otherwise; set_pixel is never invoked out of bounds by the
\* draw of any shape.
C1_DisplayClips ==
    [][ /\ image'.width = image.width /\ image'.height = image.height
        /\ \A p \in FullWindow(image.width, image.height) :
              IF Written(p)
              THEN \E k \in 1 .. Len(shown') :
                      /\ CallPos(shown'[k]) = p
                      /\ image'.pixels[p] = shown'[k].color
              ELSE image'.pixels[p] = image.pixels[p]
        /\ \A k \in 1 .. Len(shown') :
              shown'[k].hit <=>
                 /\ 0 <= shown'[k].x /\ shown'[k].x < image.width
                 /\ 0 <= shown'[k].y /\ shown'[k].y < image.height
        /\ ~panicked'
      ]_vars

\* an iteration of Circle.draw of which some display calls fell on the image
\* and some off it, on an image a pixel of which kept an earlier colour
C1_Witness ==
    /\ shape.kind = "circle" /\ pc = "drawing"
    /\ \E k \in 1 .. Len(shown) : shown[k].hit
    /\ \E k \in 1 .. Len(shown) : ~shown[k].hit
    /\ \E p \in DOMAIN image.pixels :
          /\ image.pixels[p] # Blank
          /\ \A k \in 1 .. Len(shown) : CallPos(shown[k]) # p

---------------------------------------------------------------------------
(* Properties of main (SpecMain) *)

\* a log entry of `count` like constructions in a row, each drawn
Entry(kind, random, args, count) ==
    [kind |-> kind, random |-> random, args |-> args, count |-> count,
     drawn |-> TRUE]

\* the composition: the shapes in order, each built and then drawn before
\* the next is built, and one save after them
Composition ==
    << Entry("line", TRUE, <<>>, 1),
       Entry("point", TRUE, <<>>, 1),
       Entry("rectangle", FALSE, <<150, 150, 50, 50>>, 1),
       Entry("triangle", FALSE, <<500, 500, 250, 700, 700, 800>>, 1),
       Entry("circle", TRUE, <<>>, 49),
       Entry("pentagon", FALSE, <<300, 300, 100>>, 1),
       Entry("pentagon", TRUE, <<>>, 1),
       Entry("cube", FALSE, <<700, 200, 120>>, 1),
       Entry("cube", TRUE, <<>>, 1),
       [kind |-> "save", random |-> FALSE, args |-> <<>>, count |-> 1,
        drawn |-> FALSE] >>

\* what is built and drawn so far is the composition up to some construction
InOrder ==
    /\ Len(log) <= Len(Composition)
    /\ \A k \in 1 .. Len(log) - 1 : log[k] = Composition[k]
    /\ log # <<>> =>
          LET last == log[Len(log)]
              want == Composition[Len(log)]
          IN  /\ last.kind = want.kind /\ last.random = want.random
              /\ last.args = want.args
              /\ 1 <= last.count /\ last.count <= want.count
              /\ last.kind # "save" =>
                    (~last.drawn <=> pc \in {"built", "drawing", "drawn"})
    /\ log = <<>> => pc = "idle"

\* C7: every run of main on the blank 1000x1000 image returns, whatever the
\* random values: no sampling range is empty (nothing panics), every draw
\* loop ends, the shapes are built in the order of the composition (49
\* random circles), each drawn right after it is built, and the image is
\* saved once, after all the draws.
C7_Composition ==
    /\ [](/\ ~panicked
          /\ image.width = ImageSize /\ image.height = ImageSize
          /\ InOrder
          /\ saved = (IF step = "returned" THEN 1 ELSE 0)
          /\ step \in {"save", "returned"} => pc = "idle"
          /\ step = "returned" => log = Composition)
    /\ <>(step = "returned")

\* main returned after the 49th circle and the save
C7_Witness ==
    /\ step = "returned" /\ saved = 1 /\ ~panicked
    /\ i = 50 /\ Len(log) = 10 /\ log[5].count = 49
=============================================================================
